---- MODULE Spec2Model ----
(***************************************************************************)
(* Model of PLAYLISTGENERATOR.py: fetch_artist_metadata (the catalog       *)
(* requests, the random sample of related artists, the collapse of every   *)
(* exception to None), Agent.execute (one generation call, its exception   *)
(* rendered as text) and the part of main() that runs the fetch, builds    *)
(* the context and chains the four agents.                                 *)
(*                                                                         *)
(* Python strings are TLA+ strings; the Russian literals of the source are *)
(* written as ASCII literals of the same role.  A JSON response of the     *)
(* catalog is a record [kind, data]; a missing key of a JSON object is the *)
(* value Missing.                                                          *)
(***************************************************************************)
EXTENDS Naturals, Sequences, FiniteSets, TLC

(* ------------------------------ bounds -------------------------------- *)

\* Related artists the catalog holds for the target (the code asks for 20).
MaxRelated == 6

\* Track items a catalog that ignores `limit` puts in a top-tracks response.
MaxTracks == 5

(* ------------------------- program constants -------------------------- *)

SampleSize == 5

TopLimit == 4

RelTopLimit == 2

RelatedLimit == 20

NumStages == 4

ErrPrefix == "Agent execution error: "

NotFoundMessage == "Artist not found."

(* ------------------------- the catalog service ------------------------ *)

Missing == "<missing>"

TargetId == "a0"

Queries == {"", "Echo", "Zzyzx123"}

\* The artists a free-text search matches: the catalog knows "Echo" only.
SearchHits(q) == IF q = "Echo" THEN <<[id |-> TargetId, name |-> "Echo"]>> ELSE <<>>

RelEntry(i) == [id |-> "r" \o ToString(i), name |-> "Rel" \o ToString(i)]

\* Number of tracks the catalog holds for an artist.
Held(id) ==
    IF id = TargetId THEN 2
    ELSE LET i == CHOOSE j \in 1..MaxRelated : RelEntry(j).id = id IN i % 3

TrackItem(i) == [title |-> "t" \o ToString(i)]

Min(a, b) == IF a < b THEN a ELSE b

Resp(kind, data) == [kind |-> kind, data |-> data]

\* Responses that are no JSON object with a list under 'data': the request or
\* .json() raises, the body is a JSON list, the object has no 'data' key, or
\* 'data' is null.
Faulty == {Resp(k, <<>>) : k \in {"throw", "notobj", "nodata", "nulldata"}}

\* What a well-behaved catalog answers, and what one that misbehaves may answer
\* instead.  A catalog misbehaves at most once per fetch.
SearchNormal(q) == {Resp("data", SearchHits(q))}

SearchOdd ==
    Faulty \cup {Resp("data", <<[id |-> Missing, name |-> "Echo"]>>),
                 Resp("data", <<[id |-> TargetId, name |-> Missing]>>)}

TopNormal(id, limit) == {Resp("data", [i \in 1..Min(Held(id), limit) |-> TrackItem(i)])}

\* Among them: a response that ignores `limit`, and an item without 'title'.
TopOdd ==
    Faulty \cup {Resp("data", [i \in 1..MaxTracks |-> TrackItem(i)]),
                 Resp("data", <<[title |-> Missing]>>)}

RelatedNormal == {Resp("data", [i \in 1..n |-> RelEntry(i)]) : n \in 0..MaxRelated}

\* Among them: a list whose first entry lacks 'id' or 'name'.
RelatedOdd ==
    Faulty \cup
    {Resp("data", [i \in 1..n |-> IF i = 1 THEN [RelEntry(1) EXCEPT ![f] = Missing]
                                           ELSE RelEntry(i)]) :
       n \in {1, MaxRelated}, f \in {"id", "name"}}

Answers(normal, odd, misbehaved) == normal \cup (IF misbehaved THEN {} ELSE odd)

(* --------------------- fetch_artist_metadata helpers ------------------ *)

None == [isNone |-> TRUE, source_artist |-> "", source_tracks |-> <<>>, similar |-> <<>>]

\* requests.get(url).json().get('data', []): raises for a failed request and
\* for a body that is no JSON object; a missing key gives the default [].
GetData(resp) ==
    CASE resp.kind \in {"throw", "notobj"} -> [raised |-> TRUE, isNull |-> FALSE, val |-> <<>>]
      [] resp.kind = "nodata"              -> [raised |-> FALSE, isNull |-> FALSE, val |-> <<>>]
      [] resp.kind = "nulldata"            -> [raised |-> FALSE, isNull |-> TRUE, val |-> <<>>]
      [] OTHER                             -> [raised |-> FALSE, isNull |-> FALSE, val |-> resp.data]

\* [t['title'] for t in data]: raises on null data and on an item without title.
Titles(d) ==
    IF d.raised \/ d.isNull \/ \E i \in 1..Len(d.val) : d.val[i].title = Missing
    THEN [raised |-> TRUE, val |-> <<>>]
    ELSE [raised |-> FALSE, val |-> [i \in 1..Len(d.val) |-> d.val[i].title]]

\* A draw with replacement, as random.choices(population, k=k) would make.
SamplesWithReplacement(n, k) == [1..k -> 1..n]

\* random.sample(population, k): every sequence of k distinct positions.
Samples(n, k) ==
    {s \in [1..k -> 1..n] : \A i, j \in 1..k : i # j => s[i] # s[j]}

\* The sample step left out: every related artist is kept.
SelectionsKeepAll(n) == {[i \in 1..n |-> i]}

\* The threshold and the sample size off by one.
SelectionsCapFour(n) ==
    IF n > SampleSize - 1 THEN Samples(n, SampleSize - 1) ELSE {[i \in 1..n |-> i]}

\* Lines 50-53: the positions of related_data_all kept in related_data.
Selections(n) ==
    IF n > SampleSize THEN Samples(n, SampleSize) ELSE {[i \in 1..n |-> i]}

\* What a response is, as seen from outside: its kind, "baditem" for a list with
\* an item that lacks a key.
Shape(resp) ==
    IF resp.kind = "data"
         /\ \E i \in 1..Len(resp.data) : \E f \in DOMAIN resp.data[i] : resp.data[i][f] = Missing
    THEN "baditem" ELSE resp.kind

\* One catalog request: the endpoint, its argument and `limit`, and the answer's
\* shape and number of items.
Request(ep, arg, limit, resp) ==
    [ep |-> ep, arg |-> arg, limit |-> limit, got |-> Shape(resp), count |-> Len(resp.data)]

(* ------------------------------- state -------------------------------- *)

VARIABLES
    pc,                   \* position in main() / fetch_artist_metadata
    user_query,           \* main: the text input
    misbehaved,           \* the catalog already gave a response that is not well-behaved
    requests,             \* the catalog requests issued, in order
    artist,               \* fetch: artist_obj (id, name)
    source_tracks,        \* fetch: source_tracks
    related_data_all,     \* fetch: related_data_all
    picked,               \* fetch: positions of related_data_all in related_data
    similar_artists_info, \* fetch: similar_artists_info
    raw_data,             \* main: the fetch result
    context_payload,      \* main: the built context
    calls,                \* the Agent.execute calls so far, one record per stage
    ui_error              \* main: the st.error text shown, "" when none

fetchVars == <<artist, source_tracks, related_data_all, picked, similar_artists_info>>

mainVars == <<context_payload, calls, ui_error>>

vars == <<pc, user_query, misbehaved, requests, fetchVars, raw_data, mainVars>>

Init ==
    /\ pc = "idle"
    /\ user_query = ""
    /\ misbehaved = FALSE
    /\ requests = <<>>
    /\ artist = [id |-> "", name |-> ""]
    /\ source_tracks = <<>>
    /\ related_data_all = <<>>
    /\ picked = <<>>
    /\ similar_artists_info = <<>>
    /\ raw_data = None
    /\ context_payload = ""
    /\ calls = <<>>
    /\ ui_error = ""


(* ----------------------- fetch_artist_metadata ------------------------ *)

\* related_data: the entries of related_data_all at the picked positions.
related_data == [i \in 1..Len(picked) |-> related_data_all[picked[i]]]

\* `return None`, at line 34 or from the except clause at line 74.
ReturnNone ==
    /\ raw_data' = None
    /\ pc' = "fetched"

\* Lines 136-141: the button is pressed with a query; an empty query runs nothing.
Run ==
    /\ pc = "idle"
    /\ \E q \in Queries :
         /\ user_query' = q
         /\ pc' = IF q # "" THEN "search" ELSE "idle"
    /\ UNCHANGED <<misbehaved, requests, fetchVars, raw_data, mainVars>>

\* The emptiness check of line 33 left out, the first hit read with defaults.
SearchOutcomeFallback(resp) ==
    IF resp.kind \in {"throw", "notobj"}
    THEN [found |-> FALSE, artist |-> [id |-> "", name |-> ""]]
    ELSE IF resp.data = <<>>
         THEN [found |-> TRUE, artist |-> [id |-> TargetId, name |-> "Unknown"]]
         ELSE [found |-> resp.data[1].id # Missing /\ resp.data[1].name # Missing,
               artist |-> resp.data[1]]

\* Lines 30-38: what the search response gives: an artist, or None.
SearchOutcome(resp) ==
    IF resp.kind # "data" \/ resp.data = <<>>
    THEN [found |-> FALSE, artist |-> [id |-> "", name |-> ""]]
    ELSE IF resp.data[1].id = Missing \/ resp.data[1].name = Missing
         THEN [found |-> FALSE, artist |-> [id |-> "", name |-> ""]]
         ELSE [found |-> TRUE, artist |-> resp.data[1]]

FetchSearch ==
    /\ pc = "search"
    /\ \E resp \in Answers(SearchNormal(user_query), SearchOdd, misbehaved) :
         LET o == SearchOutcome(resp) IN
           /\ requests' = Append(requests, Request("search", user_query, 0, resp))
           /\ misbehaved' = (misbehaved \/ resp \in SearchOdd)
           /\ IF o.found
              THEN /\ artist' = o.artist
                   /\ pc' = "top"
                   /\ UNCHANGED raw_data
              ELSE /\ ReturnNone
                   /\ UNCHANGED artist
    /\ UNCHANGED <<user_query, source_tracks, related_data_all, picked,
                   similar_artists_info, mainVars>>

\* Lines 41-43.
FetchTop ==
    /\ pc = "top"
    /\ \E resp \in Answers(TopNormal(artist.id, TopLimit), TopOdd, misbehaved) :
         LET t == Titles(GetData(resp)) IN
           /\ requests' = Append(requests, Request("top", artist.id, TopLimit, resp))
           /\ misbehaved' = (misbehaved \/ resp \in TopOdd)
           /\ IF t.raised
              THEN /\ ReturnNone
                   /\ UNCHANGED source_tracks
              ELSE /\ source_tracks' = t.val
                   /\ pc' = "related"
                   /\ UNCHANGED raw_data
    /\ UNCHANGED <<user_query, artist, related_data_all, picked,
                   similar_artists_info, mainVars>>

\* Lines 46-55: the related list and the random sample of it.
FetchRelated ==
    /\ pc = "related"
    /\ \E resp \in Answers(RelatedNormal, RelatedOdd, misbehaved) :
         LET d == GetData(resp) IN
           /\ requests' = Append(requests, Request("related", artist.id, RelatedLimit, resp))
           /\ misbehaved' = (misbehaved \/ resp \in RelatedOdd)
           /\ IF d.raised \/ d.isNull
              THEN /\ ReturnNone
                   /\ UNCHANGED <<related_data_all, picked>>
              ELSE /\ related_data_all' = d.val
                   /\ \E sel \in Selections(Len(d.val)) : picked' = sel
                   /\ pc' = "loop"
                   /\ UNCHANGED raw_data
    /\ UNCHANGED <<user_query, artist, source_tracks, similar_artists_info, mainVars>>

\* Lines 56-65: one iteration of the loop over related_data.
FetchRelTop ==
    /\ pc = "loop"
    /\ Len(similar_artists_info) < Len(picked)
    /\ LET rel == related_data[Len(similar_artists_info) + 1] IN
         IF rel.id = Missing
         THEN /\ ReturnNone
              /\ UNCHANGED <<requests, misbehaved, similar_artists_info>>
         ELSE \E resp \in Answers(TopNormal(rel.id, RelTopLimit), TopOdd, misbehaved) :
                LET t == Titles(GetData(resp)) IN
                  /\ requests' = Append(requests, Request("top", rel.id, RelTopLimit, resp))
                  /\ misbehaved' = (misbehaved \/ resp \in TopOdd)
                  /\ IF t.raised \/ rel.name = Missing
                     THEN /\ ReturnNone
                          /\ UNCHANGED similar_artists_info
                     ELSE /\ similar_artists_info' =
                                Append(similar_artists_info,
                                       [name |-> rel.name, tracks |-> t.val])
                          /\ UNCHANGED <<pc, raw_data>>
    /\ UNCHANGED <<user_query, artist, source_tracks, related_data_all, picked, mainVars>>

\* Lines 67-71.
FetchReturn ==
    /\ pc = "loop"
    /\ Len(similar_artists_info) = Len(picked)
    /\ raw_data' = [isNone |-> FALSE,
                    source_artist |-> artist.name,
                    source_tracks |-> source_tracks,
                    similar |-> similar_artists_info]
    /\ pc' = "fetched"
    /\ UNCHANGED <<user_query, misbehaved, requests, fetchVars, mainVars>>

NextFetch == Run \/ FetchSearch \/ FetchTop \/ FetchRelated \/ FetchRelTop \/ FetchReturn

SpecFetch == Init /\ [][NextFetch]_vars

(* ------------------------------- Agent -------------------------------- *)

\* Lines 157-201: the four agents main() constructs (roles abridged).
AgentSpec(i) ==
    CASE i = 1 -> [name |-> "Agent 1 (Similarity Analyst)", role |-> "Explain stylistic links."]
      [] i = 2 -> [name |-> "Agent 2 (Playlist Composer)", role |-> "Compile 'Artist - Track' list."]
      [] i = 3 -> [name |-> "Agent 3 (Classifier)", role |-> "Split into two mood categories."]
      [] OTHER -> [name |-> "Agent 4 (Discovery Engine)", role |-> "Suggest 3 new tracks."]

\* Lines 84-97: the two messages of one generation call.
Messages(agent, input_context) ==
    <<[role |-> "system",
       content |-> "ROLE: " \o agent.name \o "\nTASK: " \o agent.role
                     \o "\nCONSTRAINTS: Russian, Markdown, strictly by context."],
      [role |-> "user", content |-> "DATA CONTEXT:\n" \o input_context]>>

\* The generation service: a completion (here the echo of the user message), or
\* an exception inside the try block, with its description.
GenResponses(messages) ==
    {[kind |-> "ok", text |-> "GEN:" \o messages[2].content],
     [kind |-> "raise", text |-> "503 Service Unavailable"]}

\* execute with one retry of a failed generation call.
ExecuteRetry(agent, input_context, resp) ==
    [raised |-> FALSE,
     ret |-> IF resp.kind = "ok" THEN resp.text ELSE ErrPrefix \o resp.text,
     gen |-> IF resp.kind = "ok" THEN <<Messages(agent, input_context)>>
             ELSE <<Messages(agent, input_context), Messages(agent, input_context)>>]

\* execute without the except clause: the exception reaches the caller.
ExecutePropagate(agent, input_context, resp) ==
    [raised |-> resp.kind # "ok",
     ret |-> resp.text,
     gen |-> <<Messages(agent, input_context)>>]

\* Lines 98-104: the value execute returns, whether it raises, and the
\* generation calls it made.
Execute(agent, input_context, resp) ==
    [raised |-> FALSE,
     ret |-> IF resp.kind = "ok" THEN resp.text ELSE ErrPrefix \o resp.text,
     gen |-> <<Messages(agent, input_context)>>]

(* -------------------------------- main -------------------------------- *)

RECURSIVE Join(_, _)
\* sep.join(strs)
Join(strs, sep) ==
    IF strs = <<>> THEN ""
    ELSE IF Len(strs) = 1 THEN strs[1]
         ELSE strs[1] \o sep \o Join(Tail(strs), sep)

RECURSIVE SimilarLines(_)
SimilarLines(similar) ==
    IF similar = <<>> THEN ""
    ELSE "- " \o similar[1].name \o " (Tracks: " \o Join(similar[1].tracks, ", ") \o ")\n"
           \o SimilarLines(Tail(similar))

\* Lines 150-153.
BuildContext(raw) ==
    "TARGET ENTITY: " \o raw.source_artist
      \o " (Top tracks: " \o Join(raw.source_tracks, ", ") \o ")\n"
      \o "RELATED ENTITIES:\n" \o SimilarLines(raw.similar)

\* main without st.stop(): the error is shown and the run goes on.
AfterFetchNoStop ==
    /\ pc = "fetched"
    /\ ui_error' = IF raw_data.isNone THEN NotFoundMessage ELSE ui_error
    /\ context_payload' = BuildContext(raw_data)
    /\ pc' = "stage"
    /\ UNCHANGED <<user_query, misbehaved, requests, fetchVars, raw_data, calls>>

\* Lines 142-153: after the fetch, stop with the error or build the context.
AfterFetch ==
    /\ pc = "fetched"
    /\ IF raw_data.isNone
       THEN /\ ui_error' = NotFoundMessage
            /\ pc' = "stopped"
            /\ UNCHANGED context_payload
       ELSE /\ context_payload' = BuildContext(raw_data)
            /\ pc' = "stage"
            /\ UNCHANGED ui_error
    /\ UNCHANGED <<user_query, misbehaved, requests, fetchVars, raw_data, calls>>

\* Every stage after the first fed the previous stage's output.
StageInputChained(i, context, done) ==
    IF i <= 1 THEN context ELSE done[i - 1].output

\* Lines 166, 178, 190, 204: the argument of stage i's execute.
StageInput(i, context, done) ==
    IF i <= 2 THEN context ELSE done[i - 1].output

\* Lines 157-206: the next stage: construct the agent, execute, keep the output.
Stage ==
    /\ pc = "stage"
    /\ LET i == Len(calls) + 1
           input == StageInput(i, context_payload, calls)
       IN \E resp \in GenResponses(Messages(AgentSpec(i), input)) :
            LET r == Execute(AgentSpec(i), input, resp) IN
              IF r.raised
              THEN /\ pc' = "crashed"
                   /\ UNCHANGED calls
              ELSE /\ calls' = Append(calls, [agent |-> AgentSpec(i).name,
                                              input |-> input,
                                              output |-> r.ret,
                                              reply |-> resp,
                                              gen |-> Len(r.gen)])
                   /\ pc' = IF i = NumStages THEN "done" ELSE "stage"
    /\ UNCHANGED <<user_query, misbehaved, requests, fetchVars, raw_data,
                   context_payload, ui_error>>

Next == NextFetch \/ AfterFetch \/ Stage

Spec == Init /\ [][Next]_vars

(* ------------------------------- claims ------------------------------- *)

Fetched == pc = "fetched" /\ ~raw_data.isNone

\* C1: in every run that reaches the agents, stages 1 and 2 are both given the
\* built context (stage 2 never stage 1's output), stage 3 is given exactly
\* stage 2's output and stage 4 exactly stage 3's output, failure texts included.
C1_StageInputs ==
    \A i \in 1..Len(calls) :
      /\ i \in {1, 2} => calls[i].input = context_payload
      /\ i = 2 => calls[2].input # calls[1].output
      /\ i \in {3, 4} => calls[i].input = calls[i - 1].output

\* All four stages ran, stage 2 failed and its failure text was stage 3's input.
C1_Witness ==
    /\ Len(calls) = NumStages
    /\ calls[2].reply.kind = "raise"
    /\ calls[1].reply.kind = "ok"
    /\ calls[3].input = ErrPrefix \o calls[2].reply.text

\* C2: when the fetch returns None, no Agent.execute is called and no
\* generation call is made; the run stops with the "artist not found" error,
\* which is shown in no other case.
C2_NoAgentWithoutData ==
    /\ raw_data.isNone => calls = <<>> /\ context_payload = "" /\ pc \notin {"stage", "done"}
    /\ pc = "stopped" => raw_data.isNone /\ ui_error = NotFoundMessage
    /\ ui_error # "" => pc = "stopped"

\* The run stopped after a search without results.
C2_Witness ==
    /\ pc = "stopped"
    /\ user_query = "Zzyzx123"
    /\ ui_error = NotFoundMessage
    /\ Len(requests) = 1

\* C3: a fetch, one of whose requests failed or was answered with a malformed
\* response (anything but a JSON object with a list of complete items under
\* 'data'), returns None.
C3_AnyFailureYieldsNone ==
    (pc = "fetched" /\ \E i \in 1..Len(requests) : requests[i].got # "data")
      => raw_data.isNone

\* C4: when the related-artists request returns more than 5 entries, `similar`
\* has exactly 5 members, each an entry of the returned list, none twice.
C4_SampleOfFive ==
    (Fetched /\ requests[3].count > SampleSize) =>
      /\ Len(raw_data.similar) = SampleSize
      /\ \A i \in 1..Len(raw_data.similar) :
           \E j \in 1..Len(related_data_all) :
             raw_data.similar[i].name = related_data_all[j].name
      /\ \A i, j \in 1..Len(raw_data.similar) :
           i # j => raw_data.similar[i].name # raw_data.similar[j].name

\* A sample of a list of more than 5 that is no prefix of the list.
C4_Witness ==
    /\ Fetched
    /\ requests[3].count = MaxRelated
    /\ MaxRelated > SampleSize
    /\ Len(raw_data.similar) = SampleSize
    /\ raw_data.similar[1].name = RelEntry(MaxRelated).name
    /\ raw_data.similar[2].name = RelEntry(1).name

\* C5: Agent.execute never raises, makes exactly one generation call, and for
\* a generation call that raised returns the failure prefix followed by the
\* error's description.
C5_ExecuteMasksFailure ==
    /\ pc # "crashed"
    /\ \A i \in 1..Len(calls) :
         /\ calls[i].gen = 1
         /\ calls[i].reply.kind = "raise" => calls[i].output = ErrPrefix \o calls[i].reply.text
         /\ calls[i].reply.kind = "ok" => calls[i].output = calls[i].reply.text

\* An execute whose generation call raised has returned.
C5_Witness ==
    /\ Len(calls) >= 1
    /\ calls[1].reply.kind = "raise"
    /\ calls[1].output = "Agent execution error: 503 Service Unavailable"

\* C6: once the fetch gave metadata the four stages run in the order 1, 2, 3, 4
\* whatever generation calls fail: a stage is always followed by the next, the
\* run ends with exactly four executes and four outputs, and the failure text of
\* stage 2 or 3 is the next stage's input.
C6_AllFourStages ==
    /\ pc # "crashed"
    /\ Len(calls) <= NumStages
    /\ \A i \in 1..Len(calls) : calls[i].agent = AgentSpec(i).name
    /\ pc = "stage" => Len(calls) < NumStages /\ ENABLED Stage
    /\ pc = "done" <=> Len(calls) = NumStages
    /\ \A i \in 2..Len(calls) :
         (i > 2 /\ calls[i - 1].reply.kind = "raise")
           => calls[i].input = ErrPrefix \o calls[i - 1].reply.text

\* The run ended after four stages all of whose generation calls failed.
C6_Witness ==
    /\ pc = "done"
    /\ Len(calls) = NumStages
    /\ \A i \in 1..NumStages : calls[i].reply.kind = "raise"

\* C7: in every fetch result that is not None, source_tracks has at most 4
\* titles and every related artist at most 2, whatever the number of items in
\* the top-tracks responses.
C7_TrackLimits ==
    Fetched =>
      /\ Len(raw_data.source_tracks) <= TopLimit
      /\ \A i \in 1..Len(raw_data.similar) : Len(raw_data.similar[i].tracks) <= RelTopLimit

\* C8 as stated: every call of fetch_artist_metadata makes 3 to 8 requests.
C8_ThreeToEightAlways ==
    pc = "fetched" => Len(requests) >= 3 /\ Len(requests) <= 3 + SampleSize

\* C8 amended: every call makes 1 to 8 requests; a call that returns metadata
\* makes exactly 3 + k, k <= 5 the number of related artists kept: the search,
\* the target's top tracks, the related list, then one top-tracks request per
\* kept related artist.
C8_RequestCount ==
    /\ pc = "fetched" => Len(requests) >= 1 /\ Len(requests) <= 3 + SampleSize
    /\ Fetched =>
         /\ Len(raw_data.similar) <= SampleSize
         /\ Len(requests) = 3 + Len(raw_data.similar)
         /\ requests[1].ep = "search"
         /\ requests[2].ep = "top" /\ requests[2].limit = TopLimit
         /\ requests[3].ep = "related"
         /\ \A i \in 4..Len(requests) :
              requests[i].ep = "top" /\ requests[i].limit = RelTopLimit

\* A call that made all 8 requests and returned metadata.
C8_Witness ==
    /\ Fetched
    /\ Len(requests) = 3 + SampleSize
    /\ requests[3].count > SampleSize

\* C9: a fetch whose search response has an empty or missing result list
\* returns None (and makes no further request).
C9_NoMatchYieldsNone ==
    (/\ pc \notin {"idle", "search"}
     /\ \/ requests[1].got \in {"nodata", "nulldata"}
        \/ requests[1].got = "data" /\ requests[1].count = 0)
      => pc \in {"fetched", "stopped"} /\ raw_data.isNone /\ Len(requests) = 1

\* The fetch returned after a search that gave an empty list.
C9_Witness ==
    /\ pc = "fetched"
    /\ user_query = "Zzyzx123"
    /\ requests[1].got = "data"
    /\ requests[1].count = 0
    /\ raw_data.isNone

\* C10: when the related-artists request returns 5 or fewer entries, `similar`
\* has as many members as the returned list and names the same artists; in any
\* result `similar` is non-empty only if the catalog returned a related artist.
C10_KeepsAllWhenFew ==
    Fetched =>
      /\ requests[3].count <= SampleSize =>
           /\ Len(raw_data.similar) = requests[3].count
           /\ {raw_data.similar[i].name : i \in 1..Len(raw_data.similar)}
                = {related_data_all[j].name : j \in 1..Len(related_data_all)}
           /\ Len(related_data_all) = requests[3].count
      /\ Len(raw_data.similar) > 0 => requests[3].count > 0

\* A result for a related list of exactly 5 entries.
C10_Witness ==
    /\ Fetched
    /\ requests[3].count = SampleSize
    /\ Len(raw_data.similar) = SampleSize
    /\ raw_data.similar[SampleSize].name = RelEntry(SampleSize).name

====
